---- MODULE Spec2Model ----
(***************************************************************************)
(* Model of the changelog-digest tool: parseGitLog and getDateRange        *)
(* (src/src/index.ts), summarizeCommits and parseClaudeResponse            *)
(* (src/unnamed/part_000) and the run pipeline (src/src/index.ts).         *)
(*                                                                         *)
(* Text is a sequence of one-character strings.  The log alphabet has a    *)
(* letter "x", a whitespace character " " and the two characters "C" and   *)
(* "F" from which the separator tokens are built.                          *)
(***************************************************************************)
EXTENDS Integers, Sequences, FiniteSets, TLC

VARIABLES
  pc,               \* position of the operation under study
  raw,              \* parseGitLog: the raw blob
  commitSeparator,  \* parseGitLog: commit separator token
  fieldSeparator,   \* parseGitLog: field separator token
  commits,          \* parseGitLog: the returned CommitInfo[]
  text,             \* parseClaudeResponse: the reply text, as tokens
  result,           \* parseClaudeResponse: what the call returned or threw
  dcommits,         \* getDateRange: the commits argument (their date fields)
  dateRange,        \* getDateRange: what the call returned or threw
  apiKey,           \* run: process.env.ANTHROPIC_API_KEY is set
  options,          \* run: the CLIOptions
  calls,            \* run: how often each external operation was invoked
  error,            \* run: the fatal error that ended the run, or "none"
  audienceGuidance  \* summarizeCommits: the framing text put in the prompt

vars == <<pc, raw, commitSeparator, fieldSeparator, commits, text, result,
          dcommits, dateRange, apiKey, options, calls, error, audienceGuidance>>
runVars == <<apiKey, options, calls, error, audienceGuidance>>
logVars == <<raw, commitSeparator, fieldSeparator, commits>>
respVars == <<text, result>>
dateVars == <<dcommits, dateRange>>

----------------------------------------------------------------------------
(* Bounds *)
MaxLen == 8     \* longest raw blob, in characters
MaxReply == 5   \* longest service reply, in tokens
MaxCommits == 3 \* longest commit sequence given to getDateRange
MaxFetched == 2 \* longest commit sequence fetched in a run

----------------------------------------------------------------------------
(* String helpers (JavaScript String.prototype semantics) *)

LogChars == {"x", " ", "F", "C"}

IsWs(c) == c = " "

RECURSIVE TrimStart(_)
TrimStart(s) ==
  IF s = <<>> THEN s
  ELSE IF IsWs(Head(s)) THEN TrimStart(Tail(s)) ELSE s

RECURSIVE TrimEnd(_)
TrimEnd(s) ==
  IF s = <<>> THEN s
  ELSE IF IsWs(s[Len(s)]) THEN TrimEnd(SubSeq(s, 1, Len(s) - 1)) ELSE s

\* String.prototype.trim
Trim(s) == TrimEnd(TrimStart(s))

\* does sep occur in s starting at index i
MatchAt(s, sep, i) ==
  /\ i + Len(sep) - 1 <= Len(s)
  /\ \A k \in 1..Len(sep) : s[i + k - 1] = sep[k]

RECURSIVE SplitFrom(_, _, _, _)
SplitFrom(s, sep, i, cur) ==
  IF i > Len(s) THEN <<cur>>
  ELSE IF MatchAt(s, sep, i)
       THEN <<cur>> \o SplitFrom(s, sep, i + Len(sep), <<>>)
       ELSE SplitFrom(s, sep, i + 1, Append(cur, s[i]))

\* String.prototype.split(sep): leftmost non-overlapping occurrences; an
\* empty separator splits into the single characters.
Split(s, sep) ==
  IF sep = <<>> THEN [i \in 1..Len(s) |-> <<s[i]>>]
  ELSE SplitFrom(s, sep, 1, <<>>)

RECURSIVE Join(_, _)
\* Array.prototype.join(sep)
Join(parts, sep) ==
  IF parts = <<>> THEN <<>>
  ELSE IF Len(parts) = 1 THEN parts[1]
  ELSE parts[1] \o sep \o Join(Tail(parts), sep)

----------------------------------------------------------------------------
(* parseGitLog *)

\* body: body || undefined
OptBody(body) ==
  IF body # <<>> THEN [present |-> TRUE, text |-> body]
  ELSE [present |-> FALSE, text |-> <<>>]

\* raw.split(commitSeparator).filter((c) => c.trim())
RawCommits(r, cs) == SelectSeq(Split(r, cs), LAMBDA c : Trim(c) # <<>>)

\* if (parts.length >= 4)
MoreThanFourParts(parts) == Len(parts) > 4
EnoughParts(parts) == Len(parts) >= 4

\* bodyParts.join(fieldSeparator).trim()
BodyTextGlued(parts, fs) == Trim(Join(SubSeq(parts, 5, Len(parts)), <<>>))
BodyText(parts, fs) == Trim(Join(SubSeq(parts, 5, Len(parts)), fs))

\* the object pushed for one retained chunk
CommitOf(parts, fs) ==
  [hash    |-> Trim(parts[1]),
   date    |-> Trim(parts[2]),
   author  |-> Trim(parts[3]),
   message |-> Trim(parts[4]),
   body    |-> OptBody(BodyText(parts, fs))]

RECURSIVE ParseLoop(_, _, _)
\* for (const rawCommit of rawCommits) { ... commits.push(...) }
ParseLoop(rawCommits, fs, acc) ==
  IF rawCommits = <<>> THEN acc
  ELSE LET parts == Split(Head(rawCommits), fs)
       IN ParseLoop(Tail(rawCommits), fs,
                    IF EnoughParts(parts) THEN Append(acc, CommitOf(parts, fs))
                    ELSE acc)

parseGitLog(r, cs, fs) == ParseLoop(RawCommits(r, cs), fs, <<>>)

----------------------------------------------------------------------------
(* JSON values and the reply text *)

\* A JSON value: ty is its type, s its text (string, number), items its
\* elements (array).
Str(x) == [ty |-> "string", s |-> x, items |-> <<>>]
Num(x) == [ty |-> "number", s |-> x, items |-> <<>>]
Arr(es) == [ty |-> "array", s |-> "", items |-> es]
Null == [ty |-> "null", s |-> "", items |-> <<>>]
Undefined == [ty |-> "undefined", s |-> "", items |-> <<>>]

\* JavaScript truthiness, as used by ||
Truthy(v) ==
  CASE v.ty = "array" -> TRUE
    [] v.ty = "string" -> v.s # ""
    [] v.ty = "number" -> v.s # "0"
    [] OTHER -> FALSE

\* The reply is a sequence of lexical tokens: "{", "}", ",", a run of prose
\* that is not JSON, and "key": value members.
LB == [t |-> "lb", k |-> "", v |-> Undefined]
RB == [t |-> "rb", k |-> "", v |-> Undefined]
Comma == [t |-> "comma", k |-> "", v |-> Undefined]
Prose == [t |-> "prose", k |-> "", v |-> Undefined]
Pair(key, val) == [t |-> "pair", k |-> key, v |-> val]

Keys == {"features", "fixes", "improvements", "other", "extra"}

ReplyTokens ==
  {LB, RB, Comma, Prose,
   Pair("features", Arr(<<Str("A"), Str("B")>>)),
   Pair("features", Str("A")),
   Pair("fixes", Null),
   Pair("improvements", Arr(<<Str("B")>>)),
   Pair("other", Arr(<<Num("1")>>)),
   Pair("extra", Arr(<<Str("A")>>))}

----------------------------------------------------------------------------
(* parseClaudeResponse *)

NoResult == [kind |-> "none", error |-> "", sections |-> <<>>]
Return(secs) == [kind |-> "return", error |-> "", sections |-> secs]
Throw(e) == [kind |-> "throw", error |-> e, sections |-> <<>>]

\* new Error('Could not parse Claude response as JSON')
CouldNotParse == "Error: Could not parse Claude response as JSON"
\* what JSON.parse throws
JsonSyntaxError == "SyntaxError"

IndexesOf(txt, tok) == {i \in 1..Len(txt) : txt[i] = tok}
Min(S) == CHOOSE x \in S : \A y \in S : x <= y
Max(S) == CHOOSE x \in S : \A y \in S : x >= y

\* text.match(/\{[\s\S]*\}/): from the first "{" to the last "}" after it
JsonMatch(txt) ==
  LET opens == IndexesOf(txt, LB)
      closes == IndexesOf(txt, RB)
  IN IF opens # {} /\ closes # {} /\ Min(opens) < Max(closes)
     THEN [matched |-> TRUE, span |-> SubSeq(txt, Min(opens), Max(closes))]
     ELSE [matched |-> FALSE, span |-> <<>>]

\* the members between the braces: member ("," member)*, or nothing
ValidMembers(inner) ==
  \/ inner = <<>>
  \/ /\ Len(inner) % 2 = 1
     /\ \A i \in 1..Len(inner) :
          IF i % 2 = 1 THEN inner[i].t = "pair" ELSE inner[i] = Comma

RECURSIVE ObjectOf(_, _)
\* the object built from the members; a repeated key keeps its last value
ObjectOf(inner, acc) ==
  IF inner = <<>> THEN acc
  ELSE ObjectOf(Tail(inner),
                IF Head(inner).t = "pair"
                THEN [acc EXCEPT ![Head(inner).k] = Head(inner).v]
                ELSE acc)

\* JSON.parse(jsonMatch[0])
JsonParse(span) ==
  LET inner == SubSeq(span, 2, Len(span) - 1)
  IN IF ValidMembers(inner)
     THEN [ok |-> TRUE, data |-> ObjectOf(inner, [k \in Keys |-> Undefined])]
     ELSE [ok |-> FALSE, data |-> [k \in Keys |-> Undefined]]

\* data.<key> || []
OrEmpty(v) == IF Truthy(v) THEN v ELSE Arr(<<>>)

RECURSIVE SectionsOfKeys(_, _)
SectionsOfKeys(data, ks) ==
  IF ks = <<>> THEN <<>>
  ELSE IF data[Head(ks)] = Undefined THEN SectionsOfKeys(data, Tail(ks))
  ELSE <<[category |-> Head(ks), items |-> data[Head(ks)]]>>
         \o SectionsOfKeys(data, Tail(ks))

\* one section per key that the payload holds
SectionsOfPresent(data) ==
  SectionsOfKeys(data, <<"features", "fixes", "improvements", "other", "extra">>)

\* const sections: DigestSection[] = [ ... ]
SectionsOf(data) ==
  <<[category |-> "features", items |-> OrEmpty(data["features"])],
    [category |-> "fixes", items |-> OrEmpty(data["fixes"])],
    [category |-> "improvements", items |-> OrEmpty(data["improvements"])],
    [category |-> "other", items |-> OrEmpty(data["other"])]>>

parseClaudeResponse(txt) ==
  LET m == JsonMatch(txt)
  IN IF ~m.matched THEN Throw(CouldNotParse)
     ELSE LET p == JsonParse(m.span)
          IN IF ~p.ok THEN Throw(JsonSyntaxError)
             ELSE Return(SectionsOf(p.data))

----------------------------------------------------------------------------
(* Dates *)

\* A date string: src is its text; when it has timestamp syntax, civil is
\* its calendar date <<year, month, day>>, hour its hour of day and off its
\* UTC offset in hours.
Iso(src, civil, hour, off) ==
  [src |-> src, ok |-> TRUE, civil |-> civil, hour |-> hour, off |-> off]
NotADate(src) ==
  [src |-> src, ok |-> FALSE, civil |-> <<0, 0, 0>>, hour |-> 0, off |-> 0]

DateStrings ==
  {Iso("2024-01-05T00:00:00+00:00", <<2024, 1, 5>>, 0, 0),
   Iso("2024-01-05T23:00:00-05:00", <<2024, 1, 5>>, 23, -5),
   Iso("2024-01-20T12:00:00+00:00", <<2024, 1, 20>>, 12, 0),
   Iso("2024-01-01T01:00:00+05:00", <<2024, 1, 1>>, 1, 5),
   Iso("2024-01-31T22:00:00-03:00", <<2024, 1, 31>>, 22, -3),
   NotADate(""),
   NotADate("yesterday-ish")}

\* Calendar of the window December 2023 .. February 2024; day 0 is
\* 2024-01-01.
DayNumber(civil) ==
  CASE civil[1] = 2023 /\ civil[2] = 12 -> civil[3] - 32
    [] civil[1] = 2024 /\ civil[2] = 1 -> civil[3] - 1
    [] civil[1] = 2024 /\ civil[2] = 2 -> civil[3] + 30

CivilOf(n) ==
  IF n < 0 THEN <<2023, 12, n + 32>>
  ELSE IF n < 31 THEN <<2024, 1, n + 1>>
  ELSE <<2024, 2, n - 30>>

\* A JavaScript number: NaN or an integer.  Times are counted in hours
\* since 2024-01-01T00:00Z.
NaN == [nan |-> TRUE, n |-> 0]
Number(n) == [nan |-> FALSE, n |-> n]

\* new Date(c.date).getTime()
GetTime(d) ==
  IF d.ok THEN Number(DayNumber(d.civil) * 24 + d.hour - d.off) ELSE NaN

\* Math.min(...xs), Math.max(...xs): NaN as soon as one argument is NaN
MathMin(xs) ==
  IF \E i \in 1..Len(xs) : xs[i].nan THEN NaN
  ELSE Number(Min({xs[i].n : i \in 1..Len(xs)}))
MathMax(xs) ==
  IF \E i \in 1..Len(xs) : xs[i].nan THEN NaN
  ELSE Number(Max({xs[i].n : i \in 1..Len(xs)}))

\* new Date(t).toISOString().split('T')[0]: the UTC calendar date; an
\* invalid Date throws RangeError
IsoDateLenient(t) ==
  IF t.nan THEN [threw |-> FALSE, civil |-> <<0, 0, 0>>]
  ELSE [threw |-> FALSE, civil |-> CivilOf(t.n \div 24)]
IsoDate(t) ==
  IF t.nan THEN [threw |-> TRUE, civil |-> <<0, 0, 0>>]
  ELSE [threw |-> FALSE, civil |-> CivilOf(t.n \div 24)]

\* new Date().toISOString().split('T')[0]
Today == <<2024, 2, 10>>

----------------------------------------------------------------------------
(* getDateRange *)

NoRange == [kind |-> "none", error |-> "", start |-> <<>>, end |-> <<>>]
Range(a, b) == [kind |-> "return", error |-> "", start |-> a, end |-> b]
RangeThrow(e) == [kind |-> "throw", error |-> e, start |-> <<>>, end |-> <<>>]

\* commits.map((c) => new Date(c.date)), then dates.map((d) => d.getTime())
Times(cs) == [i \in 1..Len(cs) |-> GetTime(cs[i])]

\* new Date(Math.min(...))
OldestLastElement(cs) == Times(cs)[Len(cs)]
Oldest(cs) == MathMin(Times(cs))
\* new Date(Math.max(...))
Newest(cs) == MathMax(Times(cs))

getDateRange(cs) ==
  IF Len(cs) = 0 THEN Range(Today, Today)
  ELSE LET s == IsoDate(Oldest(cs))
           e == IsoDate(Newest(cs))
       IN IF s.threw \/ e.threw THEN RangeThrow("RangeError")
          ELSE Range(s.civil, e.civil)

----------------------------------------------------------------------------
(* summarizeCommits: audience framing *)

\* const AUDIENCE_PROMPTS: Record<string, string> = { ... }
AUDIENCE_PROMPTS ==
  "general" :> "Write for a general business audience."
  @@ "sales" :> "Write for a sales team."
  @@ "ops" :> "Write for an operations team."
  @@ "cx" :> "Write for a customer experience team."

\* AUDIENCE_PROMPTS is an object literal, so a lookup that misses its own
\* keys goes on to Object.prototype.  Each inherited value is truthy; it is
\* given here as the text it becomes inside the template literal.
ObjectPrototype ==
  "constructor" :> "function Object() { [native code] }"
  @@ "toString" :> "function toString() { [native code] }"
  @@ "__proto__" :> "[object Object]"

\* the audience parameter left out: audience: string = 'general'
Absent == "<absent>"

\* AUDIENCE_PROMPTS[audience]
Lookup(audience) ==
  IF audience \in DOMAIN AUDIENCE_PROMPTS
  THEN [defined |-> TRUE, str |-> AUDIENCE_PROMPTS[audience]]
  ELSE IF audience \in DOMAIN ObjectPrototype
  THEN [defined |-> TRUE, str |-> ObjectPrototype[audience]]
  ELSE [defined |-> FALSE, str |-> ""]

\* AUDIENCE_PROMPTS[audience] || AUDIENCE_PROMPTS.general, as it reads in
\* the prompt
AudienceGuidance(audience) ==
  LET a == IF audience = Absent THEN "general" ELSE audience
  IN IF Lookup(a).defined THEN Lookup(a).str ELSE AUDIENCE_PROMPTS["general"]

\* audience values a caller may pass
Audiences ==
  {"general", "sales", "ops", "cx", Absent, "", "marketing",
   "constructor", "toString", "__proto__"}

Operations == {"checkIsRepo", "rawLog", "messagesCreate", "format", "write"}

NoOptions == [audience |-> "general", format |-> "markdown", output |-> FALSE]
NoCalls == [o \in Operations |-> 0]

----------------------------------------------------------------------------
(* Specification of parseGitLog: any blob, any pair of separator tokens *)

RECURSIVE SeqsUpTo(_, _)
SeqsUpTo(S, n) ==
  IF n = 0 THEN {<<>>}
  ELSE LET prev == SeqsUpTo(S, n - 1)
       IN prev \cup {Append(s, c) : s \in {p \in prev : Len(p) = n - 1}, c \in S}

\* pairs <<commit separator, field separator>>: one-character tokens,
\* longer tokens, and an empty field separator
SeparatorPairs ==
  {<<(<<"C">>), (<<"F">>)>>,
   <<(<<"C", "C">>), (<<"F", "F">>)>>,
   <<(<<"C">>), (<<>>)>>}

InitLog ==
  /\ pc = "log_input"
  /\ raw \in UNION {[1..n -> LogChars] : n \in 0..MaxLen}
  /\ \E p \in SeparatorPairs :
       commitSeparator = p[1] /\ fieldSeparator = p[2]
  /\ commits = <<>>
  /\ text = <<>>
  /\ result = NoResult
  /\ dcommits = <<>>
  /\ dateRange = NoRange
  /\ apiKey = FALSE
  /\ options = NoOptions
  /\ calls = NoCalls
  /\ error = "none"
  /\ audienceGuidance = ""

ParseGitLog ==
  /\ pc = "log_input"
  /\ commits' = parseGitLog(raw, commitSeparator, fieldSeparator)
  /\ pc' = "log_parsed"
  /\ UNCHANGED <<raw, commitSeparator, fieldSeparator>>
  /\ UNCHANGED respVars
  /\ UNCHANGED dateVars
  /\ UNCHANGED runVars

NextLog == ParseGitLog

SpecLog == InitLog /\ [][NextLog]_vars

----------------------------------------------------------------------------
(* Properties of parseGitLog *)

\* the chunks of the blob, before any filtering
Chunks == Split(raw, commitSeparator)

\* a chunk that is not blank and splits into at least four field parts
Retained(c) == Trim(c) # <<>> /\ Len(Split(c, fieldSeparator)) >= 4

KeptChunks == SelectSeq(Chunks, Retained)

\* index of the leftmost occurrence of sep in s, 0 when there is none
FirstOcc(s, sep) ==
  IF \E i \in 1..Len(s) : MatchAt(s, sep, i)
  THEN CHOOSE i \in 1..Len(s) :
         MatchAt(s, sep, i) /\ \A j \in 1..(i - 1) : ~MatchAt(s, sep, j)
  ELSE 0

RECURSIVE AfterNth(_, _, _)
\* the text that follows the n-th separator of s, when s has n separators
AfterNth(s, sep, n) ==
  IF n = 0 THEN [found |-> TRUE, rest |-> s]
  ELSE IF sep = <<>>
       THEN IF Len(s) > n THEN [found |-> TRUE, rest |-> SubSeq(s, n + 1, Len(s))]
            ELSE [found |-> FALSE, rest |-> <<>>]
  ELSE LET i == FirstOcc(s, sep)
       IN IF i = 0 THEN [found |-> FALSE, rest |-> <<>>]
          ELSE AfterNth(SubSeq(s, i + Len(sep), Len(s)), sep, n - 1)

\* the text of s up to its first separator
BeforeFirst(s, sep) ==
  IF sep = <<>> THEN SubSeq(s, 1, 1)
  ELSE LET i == FirstOcc(s, sep)
       IN IF i = 0 THEN s ELSE SubSeq(s, 1, i - 1)

\* the k-th field of chunk c, read directly off the chunk text
FieldText(c, k) == BeforeFirst(AfterNth(c, fieldSeparator, k - 1).rest, fieldSeparator)

IsTrimmed(s) == s = <<>> \/ (~IsWs(s[1]) /\ ~IsWs(s[Len(s)]))

\* C1: parseGitLog returns exactly one record per chunk that is not blank
\* and has at least four field parts, in the order of those chunks; every
\* other chunk is dropped.  A blob of N well-formed records gives N records,
\* with or without a trailing commit separator.
C1_OneRecordPerRetainedChunk ==
  pc = "log_parsed" =>
    /\ Len(commits) = Len(KeptChunks)
    /\ \A i \in 1..Len(commits) :
         /\ i <= Len(KeptChunks)
         /\ commits[i].hash = Trim(FieldText(KeptChunks[i], 1))
         /\ commits[i].date = Trim(FieldText(KeptChunks[i], 2))
         /\ commits[i].author = Trim(FieldText(KeptChunks[i], 3))
         /\ commits[i].message = Trim(FieldText(KeptChunks[i], 4))
    /\ LET n == Len(Chunks)
           records == IF n > 0 /\ Chunks[n] = <<>>
                      THEN SubSeq(Chunks, 1, n - 1) ELSE Chunks
       IN (\A i \in 1..Len(records) : Retained(records[i]))
            => Len(commits) = Len(records)

\* two records are returned and a third chunk (a trailing-separator
\* artifact or a chunk with too few fields) was dropped
C1_Witness ==
  /\ pc = "log_parsed"
  /\ Len(commits) = 2
  /\ Len(Chunks) > Len(commits)

\* C2: every emitted record has non-empty, trimmed hash, date, author and
\* message, and a body that is absent or a non-empty trimmed string.
C2_FieldsNonEmptyTrimmed ==
  pc = "log_parsed" =>
    \A i \in 1..Len(commits) :
      /\ commits[i].hash # <<>> /\ IsTrimmed(commits[i].hash)
      /\ commits[i].date # <<>> /\ IsTrimmed(commits[i].date)
      /\ commits[i].author # <<>> /\ IsTrimmed(commits[i].author)
      /\ commits[i].message # <<>> /\ IsTrimmed(commits[i].message)
      /\ commits[i].body.present =>
           (commits[i].body.text # <<>> /\ IsTrimmed(commits[i].body.text))

\* C3: the body of a record is everything that follows the fourth field
\* separator of its chunk, trimmed, with every separator inside it kept;
\* the first four fields are the texts between the first four separators.
C3_BodyIsRemainder ==
  pc = "log_parsed" =>
    \A i \in 1..Len(commits) :
      /\ i <= Len(KeptChunks)
      /\ LET a == AfterNth(KeptChunks[i], fieldSeparator, 4)
             t == Trim(a.rest)
         IN /\ commits[i].body.present = (a.found /\ t # <<>>)
            /\ commits[i].body.text = (IF a.found THEN t ELSE <<>>)
      /\ commits[i].message = Trim(FieldText(KeptChunks[i], 4))

\* a returned body contains the field separator as literal text
C3_Witness ==
  /\ pc = "log_parsed"
  /\ fieldSeparator # <<>>
  /\ \E i \in 1..Len(commits) :
       /\ commits[i].body.present
       /\ \E j \in 1..Len(commits[i].body.text) :
            MatchAt(commits[i].body.text, fieldSeparator, j)

----------------------------------------------------------------------------
(* Specification of parseClaudeResponse: any reply text *)

InitResp ==
  /\ pc = "resp_input"
  /\ text \in UNION {[1..n -> ReplyTokens] : n \in 0..MaxReply}
  /\ result = NoResult
  /\ raw = <<>> /\ commitSeparator = <<>> /\ fieldSeparator = <<>>
  /\ commits = <<>>
  /\ dcommits = <<>>
  /\ dateRange = NoRange
  /\ apiKey = FALSE
  /\ options = NoOptions
  /\ calls = NoCalls
  /\ error = "none"
  /\ audienceGuidance = ""

ParseClaudeResponse ==
  /\ pc = "resp_input"
  /\ result' = parseClaudeResponse(text)
  /\ pc' = "resp_parsed"
  /\ UNCHANGED text
  /\ UNCHANGED logVars
  /\ UNCHANGED dateVars
  /\ UNCHANGED runVars

NextResp == ParseClaudeResponse

SpecResp == InitResp /\ [][NextResp]_vars

----------------------------------------------------------------------------
(* Properties of parseClaudeResponse *)

Categories == <<"features", "fixes", "improvements", "other">>

\* the members of the reply that lie between its first "{" and last "}"
\* and carry the given key
MembersOf(key) ==
  LET opens == IndexesOf(text, LB)
      closes == IndexesOf(text, RB)
  IN IF opens = {} \/ closes = {} THEN {}
     ELSE {i \in Min(opens)..Max(closes) : text[i].t = "pair" /\ text[i].k = key}

\* the items the payload gives for a key: the value of its last member when
\* that value is truthy, the empty sequence otherwise
ExpectedItems(key) ==
  IF MembersOf(key) = {} THEN Arr(<<>>)
  ELSE LET v == text[Max(MembersOf(key))].v
       IN IF Truthy(v) THEN v ELSE Arr(<<>>)

\* C4: whenever parseClaudeResponse returns, the result has exactly the four
\* sections features, fixes, improvements, other in that order; a missing
\* key gives empty items; extra keys add no section and change none.
C4_FourSectionsFixedOrder ==
  (pc = "resp_parsed" /\ result.kind = "return") =>
    /\ Len(result.sections) = 4
    /\ \A i \in 1..4 :
         /\ result.sections[i].category = Categories[i]
         /\ MembersOf(Categories[i]) = {} => result.sections[i].items = Arr(<<>>)
         /\ result.sections[i].items = ExpectedItems(Categories[i])

\* a parsed payload with one category, an extra key and missing categories
C4_Witness ==
  /\ pc = "resp_parsed"
  /\ result.kind = "return"
  /\ MembersOf("extra") # {}
  /\ MembersOf("improvements") = {}
  /\ result.sections[1].items # Arr(<<>>)

IsStringSeq(v) ==
  /\ v.ty = "array"
  /\ \A j \in 1..Len(v.items) : v.items[j].ty = "string"

\* C5: every section returned has items that is a sequence of strings, also
\* when the payload holds an ill-typed value under a category key.
C5_ItemsAreStringSequences ==
  (pc = "resp_parsed" /\ result.kind = "return") =>
    \A i \in 1..Len(result.sections) : IsStringSeq(result.sections[i].items)

\* C6: a reply without a "{...}" span, or whose span does not parse, fails
\* with the one dedicated error, the same in both cases; no defaulted
\* result is returned.
C6_OneUnparseableError ==
  pc = "resp_parsed" =>
    LET m == JsonMatch(text)
    IN (~m.matched \/ ~JsonParse(m.span).ok) => result = Throw(CouldNotParse)

----------------------------------------------------------------------------
(* Specification of getDateRange: any short sequence of records *)

InitDate ==
  /\ pc = "date_input"
  /\ dcommits \in SeqsUpTo(DateStrings, MaxCommits)
  /\ dateRange = NoRange
  /\ raw = <<>> /\ commitSeparator = <<>> /\ fieldSeparator = <<>>
  /\ commits = <<>>
  /\ text = <<>>
  /\ result = NoResult
  /\ apiKey = FALSE
  /\ options = NoOptions
  /\ calls = NoCalls
  /\ error = "none"
  /\ audienceGuidance = ""

GetDateRange ==
  /\ pc = "date_input"
  /\ dateRange' = getDateRange(dcommits)
  /\ pc' = "date_done"
  /\ UNCHANGED dcommits
  /\ UNCHANGED logVars
  /\ UNCHANGED respVars
  /\ UNCHANGED runVars

NextDate == GetDateRange

SpecDate == InitDate /\ [][NextDate]_vars

----------------------------------------------------------------------------
(* Properties of getDateRange *)

\* YYYY-MM-DD strings compare as their <<year, month, day>> triples
CivilLeq(a, b) ==
  \/ a[1] < b[1]
  \/ a[1] = b[1] /\ a[2] < b[2]
  \/ a[1] = b[1] /\ a[2] = b[2] /\ a[3] <= b[3]

AllParse(cs) == \A i \in 1..Len(cs) : cs[i].ok

\* the instants of the records, in hours
Instants(cs) == {DayNumber(cs[i].civil) * 24 + cs[i].hour - cs[i].off : i \in 1..Len(cs)}

Perms(n) == {p \in [1..n -> 1..n] : \A i, j \in 1..n : p[i] = p[j] => i = j}

\* C8: for a non-empty sequence of records with parseable dates, start is
\* the calendar date of the earliest instant, end that of the latest,
\* start <= end, and every permutation of the input gives the same range.
C8_RangeIsMinMax ==
  (pc = "date_done" /\ Len(dcommits) > 0 /\ AllParse(dcommits)) =>
    /\ dateRange.kind = "return"
    /\ dateRange.start = CivilOf(Min(Instants(dcommits)) \div 24)
    /\ dateRange.end = CivilOf(Max(Instants(dcommits)) \div 24)
    /\ CivilLeq(dateRange.start, dateRange.end)
    /\ \A p \in Perms(Len(dcommits)) :
         getDateRange([i \in 1..Len(dcommits) |-> dcommits[p[i]]]) = dateRange

\* records given newest first and oldest first span more than one day
C8_Witness ==
  /\ pc = "date_done"
  /\ Len(dcommits) >= 2
  /\ AllParse(dcommits)
  /\ GetTime(dcommits[1]).n > GetTime(dcommits[Len(dcommits)]).n
  /\ dateRange.kind = "return"
  /\ dateRange.start # dateRange.end

\* C9: when the date of at least one record of a non-empty sequence does
\* not parse, getDateRange raises an error and returns no range, wherever
\* the malformed record sits.
C9_MalformedDateRaises ==
  (pc = "date_done" /\ Len(dcommits) > 0 /\ ~AllParse(dcommits)) =>
    dateRange.kind = "throw"

\* a malformed date in the middle of valid ones
C9_Witness ==
  /\ pc = "date_done"
  /\ Len(dcommits) = 3
  /\ dcommits[1].ok /\ ~dcommits[2].ok /\ dcommits[3].ok
  /\ dateRange.kind = "throw"

----------------------------------------------------------------------------
(* The run pipeline *)

\* replies the summarization service may give
FeaturesAB == Pair("features", Arr(<<Str("A"), Str("B")>>))
RunReplies ==
  {<<>>, <<Prose>>, <<LB, Prose, RB>>, <<LB, RB>>,
   <<Prose, LB, FeaturesAB, RB>>,
   <<LB, FeaturesAB, Comma, Pair("extra", Arr(<<Str("A")>>)), RB, Prose>>}

InitRun ==
  /\ pc = "start"
  /\ apiKey \in BOOLEAN
  /\ options \in [audience : Audiences, format : {"markdown", "html"},
                  output : BOOLEAN]
  /\ calls = NoCalls
  /\ error = "none"
  /\ audienceGuidance = ""
  /\ raw = <<>> /\ commitSeparator = <<>> /\ fieldSeparator = <<>>
  /\ commits = <<>>
  /\ text = <<>>
  /\ result = NoResult
  /\ dcommits = <<>>
  /\ dateRange = NoRange

\* the action handler's catch: print the message, process.exit(1)
Fail(kind) == pc' = "exit" /\ error' = kind

\* if (!process.env.ANTHROPIC_API_KEY) { ...; process.exit(1) }
CheckApiKey ==
  /\ pc = "start"
  /\ IF apiKey THEN pc' = "fetch" /\ error' = error
     ELSE Fail("missing_key")
  /\ UNCHANGED <<apiKey, options, calls, audienceGuidance>>
  /\ UNCHANGED <<logVars, respVars, dateVars>>

\* commits = await getCommits(repoPath, options.since), and the
\* commits.length === 0 return
FetchCommits ==
  /\ pc = "fetch"
  /\ \/ \* git.checkIsRepo() rejects
        /\ calls' = [calls EXCEPT !["checkIsRepo"] = @ + 1]
        /\ Fail("git_failure")
        /\ UNCHANGED dcommits
     \/ \* not a repository
        /\ calls' = [calls EXCEPT !["checkIsRepo"] = @ + 1]
        /\ Fail("not_a_repository")
        /\ UNCHANGED dcommits
     \/ \* git.raw() rejects
        /\ calls' = [calls EXCEPT !["checkIsRepo"] = @ + 1, !["rawLog"] = @ + 1]
        /\ Fail("git_failure")
        /\ UNCHANGED dcommits
     \/ \* the log is read and parsed
        /\ calls' = [calls EXCEPT !["checkIsRepo"] = @ + 1, !["rawLog"] = @ + 1]
        /\ \E cs \in SeqsUpTo(DateStrings, MaxFetched) :
             /\ dcommits' = cs
             /\ pc' = IF Len(cs) = 0 THEN "done" ELSE "range"
        /\ error' = error
  /\ UNCHANGED <<apiKey, options, audienceGuidance, dateRange>>
  /\ UNCHANGED <<logVars, respVars>>

\* const dateRange = getDateRange(commits)
RunDateRange ==
  /\ pc = "range"
  /\ dateRange' = getDateRange(dcommits)
  /\ IF dateRange'.kind = "throw" THEN Fail("invalid_date")
     ELSE pc' = "summarize" /\ error' = error
  /\ UNCHANGED <<apiKey, options, calls, audienceGuidance, dcommits>>
  /\ UNCHANGED <<logVars, respVars>>

\* every outcome of summarizeCommits but a retry
SummarizeOutcome ==
  \/ \* Anthropic.RateLimitError
     /\ Fail("rate_limit")
     /\ UNCHANGED respVars
  \/ \* Anthropic.AuthenticationError
     /\ Fail("authentication")
     /\ UNCHANGED respVars
  \/ \* any other rejection, or content that is not text
     /\ Fail("service_failure")
     /\ UNCHANGED respVars
  \/ \* a text reply
     /\ \E reply \in RunReplies :
          /\ text' = reply
          /\ result' = parseClaudeResponse(reply)
          /\ IF result'.kind = "throw" THEN Fail("unparseable_reply")
             ELSE pc' = "format" /\ error' = error

\* a variant that calls the service again after a rate-limit error
SummarizeCommitsRetrying ==
  /\ pc = "summarize"
  /\ apiKey
  /\ audienceGuidance' = AudienceGuidance(options.audience)
  /\ calls' = [calls EXCEPT !["messagesCreate"] = @ + 1]
  /\ \/ SummarizeOutcome
     \/ /\ calls["messagesCreate"] < 2
        /\ pc' = "summarize" /\ error' = error
        /\ UNCHANGED respVars
  /\ UNCHANGED <<apiKey, options, dcommits, dateRange>>
  /\ UNCHANGED logVars

\* sections = await summarizeCommits(commits, options.audience)
SummarizeCommits ==
  /\ pc = "summarize"
  /\ apiKey
  /\ audienceGuidance' = AudienceGuidance(options.audience)
  /\ calls' = [calls EXCEPT !["messagesCreate"] = @ + 1]
  /\ SummarizeOutcome
  /\ UNCHANGED <<apiKey, options, dcommits, dateRange>>
  /\ UNCHANGED logVars

\* output = formatHTML(sections, dateRange) or formatMarkdown(...)
FormatOutput ==
  /\ pc = "format"
  /\ calls' = [calls EXCEPT !["format"] = @ + 1]
  /\ pc' = "write"
  /\ UNCHANGED <<apiKey, options, error, audienceGuidance>>
  /\ UNCHANGED <<logVars, respVars, dateVars>>

\* fs.writeFileSync(outputPath, output) or console.log(output)
WriteOutput ==
  /\ pc = "write"
  /\ calls' = [calls EXCEPT !["write"] = @ + 1]
  /\ \/ pc' = "done" /\ error' = error
     \/ options.output /\ Fail("write_failure")
  /\ UNCHANGED <<apiKey, options, audienceGuidance>>
  /\ UNCHANGED <<logVars, respVars, dateVars>>

NextRun ==
  \/ CheckApiKey
  \/ FetchCommits
  \/ RunDateRange
  \/ SummarizeCommits
  \/ FormatOutput
  \/ WriteOutput

SpecRun == InitRun /\ [][NextRun]_vars

----------------------------------------------------------------------------
(* Properties of the run and of the audience framing *)

KnownAudiences == {"general", "sales", "ops", "cx"}

\* C7: for every audience value outside general, sales, ops, cx, the
\* framing text put in the instruction is the general framing.
C7_UnknownAudienceIsGeneral ==
  (calls["messagesCreate"] > 0 /\ options.audience \notin KnownAudiences) =>
    audienceGuidance = AUDIENCE_PROMPTS["general"]

\* the errors that end a run before anything is rendered
FatalBeforeRender ==
  {"missing_key", "git_failure", "not_a_repository", "invalid_date",
   "rate_limit", "authentication", "service_failure", "unparseable_reply"}

RunInvariant ==
  /\ \A o \in Operations : calls[o] <= 1
  /\ error # "none" <=> pc = "exit"
  /\ error \in FatalBeforeRender => (calls["format"] = 0 /\ calls["write"] = 0)
  /\ error \in {"git_failure", "not_a_repository", "invalid_date"}
       => calls["messagesCreate"] = 0
  /\ error = "missing_key" => \A o \in Operations : calls[o] = 0

\* C10: in every run each external operation is invoked at most once; the
\* first fatal error ends the run at once: nothing is retried, no later
\* stage runs, nothing is rendered or written; a missing credential ends
\* the run before the repository or the service is touched.
C10_FirstFatalErrorEndsRun ==
  /\ []RunInvariant
  /\ [][pc = "exit" => UNCHANGED vars]_vars
  /\ [][\A o \in Operations : calls'[o] >= calls[o]]_vars

\* a run that ended on a service error after a successful fetch
C10_Witness ==
  /\ pc = "exit"
  /\ error = "rate_limit"
  /\ calls["rawLog"] = 1
  /\ calls["messagesCreate"] = 1

====
